---- MODULE Spec2Model ----
(***************************************************************************)
(* Northern Lights: configuration store (utils/config.py), aurora check    *)
(* and notification flow (utils/cli_commands.py, utils/aurora_api.py,      *)
(* utils/email_notifier.py).                                               *)
(*                                                                         *)
(* Conventions.  A Python dict is a function whose DOMAIN is the set of    *)
(* keys present.  A Python str that the code inspects character by         *)
(* character (an email address, a line typed at a prompt) is a sequence    *)
(* of one-character strings; other strings are TLA+ strings.  A value the  *)
(* code type-checks carries its Python type in the field "kind".  A float  *)
(* is an integer: whole degrees for coordinates, whole units for KP.       *)
(***************************************************************************)
EXTENDS Integers, Sequences, FiniteSets, TLC

----------------------------------------------------------------------------
(* Bounds of the model *)

\* largest KP index (in whole KP units) an API response carries
MaxKp == 6
\* how far outside the valid range the sampled coordinates lie
CoordMargin == 1
\* longest locations list of a configuration
MaxLocations == 2
\* longest recipients list of a configuration
MaxRecipients == 2
\* longest string handed to validate_email on its own
MaxEmailLen == 7

----------------------------------------------------------------------------
(* Program constants *)

LatLimit == 90
LngLimit == 180
HighCutoff == 5
ModerateCutoff == 3
AllCutoff == 0
TierHigh == 5
TierModerate == 3
valid_thresholds == <<"HIGH", "MODERATE", "ALL">>

----------------------------------------------------------------------------
(* State *)

VARIABLES
    file,                   \* config.json: absent, unparsable, or JSON text
    pc,                     \* position of the running command
    cmd,                    \* the command being run
    config,                 \* the configuration dict held by the command
    exit_msg,               \* message of the sys.exit that ended the process
    locations,              \* check / manage_locations: the locations list
    emails,                 \* check: the recipients list
    threshold,              \* check: configured threshold name
    kp_threshold,           \* check: numeric cutoff
    n,                      \* check: index of the next location / recipient
    notification_locations, \* check: list of (location, kp) pairs
    output,                 \* lines printed so far (configure: by the last
                            \* step, its prompts can be answered without end)
    fetched,                \* API requests made so far
    composed,               \* calls of create_aurora_alert_email so far
    sent,                   \* calls of send_email so far, with their outcome
    saved                   \* the dict last handed to save_config, if any

vars == <<file, pc, cmd, config, exit_msg, locations, emails, threshold,
          kp_threshold, n, notification_locations, output, fetched,
          composed, sent, saved>>

checkVars == <<locations, emails, threshold, kp_threshold, n,
               notification_locations, fetched, composed, sent>>

----------------------------------------------------------------------------
(* Generic helpers *)

EmptyDict == [k \in {} |-> 0]

Restrict(f, S) == [k \in S |-> f[k]]

DictSet(d, k, v) == [x \in DOMAIN d \cup {k} |-> IF x = k THEN v ELSE d[x]]

DictPop(d, k) == Restrict(d, DOMAIN d \ {k})

Range(s) == {s[x] : x \in DOMAIN s}

RECURSIVE Flatten(_)
Flatten(ss) == IF ss = <<>> THEN <<>> ELSE Head(ss) \o Flatten(Tail(ss))

----------------------------------------------------------------------------
(* Strings as character sequences *)

Letters == {"a", "b", "c", "o"}
Digits == {"1"}
Whitespace == {" "}
LocalChars == Letters \cup Digits \cup {".", "_", "%", "+", "-"}
DomainChars == Letters \cup Digits \cup {".", "-"}

RECURSIVE lstrip(_)
lstrip(s) == IF s # <<>> /\ Head(s) \in Whitespace THEN lstrip(Tail(s)) ELSE s

RECURSIVE rstrip(_)
rstrip(s) ==
    IF s # <<>> /\ s[Len(s)] \in Whitespace
    THEN rstrip(SubSeq(s, 1, Len(s) - 1)) ELSE s

strip(s) == rstrip(lstrip(s))

\* str.split(","): the pieces between the commas, empty pieces included
RECURSIVE split(_, _)
split(s, sep) ==
    IF \A x \in DOMAIN s : s[x] # sep THEN <<s>>
    ELSE LET p == CHOOSE x \in DOMAIN s :
                      s[x] = sep /\ \A y \in 1..(x - 1) : s[y] # sep
         IN <<SubSeq(s, 1, p - 1)>> \o split(SubSeq(s, p + 1, Len(s)), sep)

\* the pattern with a top-level domain of one letter allowed: {1,} for {2,}
email_pattern_short_suffix(s) ==
    \E at \in DOMAIN s, dot \in DOMAIN s :
        /\ s[at] = "@"
        /\ at > 1
        /\ \A x \in 1..(at - 1) : s[x] \in LocalChars
        /\ dot > at + 1
        /\ s[dot] = "."
        /\ \A x \in (at + 1)..(dot - 1) : s[x] \in DomainChars
        /\ Len(s) - dot >= 1
        /\ \A x \in (dot + 1)..Len(s) : s[x] \in Letters

\* re.match(r'^[a-zA-Z0-9._%+-]+@[a-zA-Z0-9.-]+\.[a-zA-Z]{2,}$', s)
email_pattern(s) ==
    \E at \in DOMAIN s, dot \in DOMAIN s :
        /\ s[at] = "@"
        /\ at > 1
        /\ \A x \in 1..(at - 1) : s[x] \in LocalChars
        /\ dot > at + 1
        /\ s[dot] = "."
        /\ \A x \in (at + 1)..(dot - 1) : s[x] \in DomainChars
        /\ Len(s) - dot >= 2
        /\ \A x \in (dot + 1)..Len(s) : s[x] \in Letters

validate_email(email) == email_pattern(strip(email))

----------------------------------------------------------------------------
(* Configuration values *)

Float(v) == [kind |-> "float", v |-> v]
NoneValue == [kind |-> "NoneType", v |-> 0]

List(items) == [kind |-> "list", items |-> items]
NotAList == [kind |-> "NoneType", items |-> <<>>]

Dict(d) == [kind |-> "dict", d |-> d]
NotADict == [kind |-> "NoneType", d |-> EmptyDict]

Location(city, country, lat, lng) ==
    Dict([city |-> city, country |-> country,
          latitude |-> lat, longitude |-> lng])

required_keys == <<"city", "country", "latitude", "longitude">>

----------------------------------------------------------------------------
(* validate_config *)

Error(msg, loc) == [msg |-> msg, loc |-> loc]

threshold_errors(cfg) ==
    IF "notification_threshold" \in DOMAIN cfg
       /\ cfg["notification_threshold"] \notin Range(valid_thresholds)
    THEN <<Error("notification_threshold must be one of: HIGH, MODERATE, ALL", 0)>>
    ELSE <<>>

\* float(x) followed by the range test lo <= x <= hi
coordinate_errors(loc, key, limit, i) ==
    IF key \notin DOMAIN loc THEN <<>>
    ELSE IF loc[key].kind # "float"
         THEN <<Error(key \o " must be a number", i)>>
         ELSE IF ~(-limit <= loc[key].v /\ loc[key].v <= limit)
              THEN <<Error(key \o " out of range", i)>>
              ELSE <<>>

location_errors(loc, i) ==
    IF loc.kind # "dict" THEN <<Error("must be a dictionary", i)>>
    ELSE (IF \E x \in DOMAIN required_keys : required_keys[x] \notin DOMAIN loc.d
          THEN <<Error("missing keys", i)>> ELSE <<>>)
         \o coordinate_errors(loc.d, "latitude", LatLimit, i)
         \o coordinate_errors(loc.d, "longitude", LngLimit, i)

\* the locations check letting an empty list pass
locations_errors_accepting_empty(cfg) ==
    IF "locations" \in DOMAIN cfg
    THEN IF cfg["locations"].kind # "list"
         THEN <<Error("'locations' must be a list", 0)>>
         ELSE Flatten([x \in DOMAIN cfg["locations"].items |->
                          location_errors(cfg["locations"].items[x], x)])
    ELSE IF "city" \in DOMAIN cfg /\ "country" \in DOMAIN cfg
         THEN IF "latitude" \notin DOMAIN cfg \/ "longitude" \notin DOMAIN cfg
              THEN <<Error("Old format config missing latitude or longitude", 0)>>
              ELSE <<>>
         ELSE <<Error("Config must have either 'locations' or 'city'/'country'", 0)>>

locations_errors(cfg) ==
    IF "locations" \in DOMAIN cfg
    THEN IF cfg["locations"].kind # "list"
         THEN <<Error("'locations' must be a list", 0)>>
         ELSE IF Len(cfg["locations"].items) = 0
              THEN <<Error("At least one location must be configured", 0)>>
              ELSE Flatten([x \in DOMAIN cfg["locations"].items |->
                               location_errors(cfg["locations"].items[x], x)])
    ELSE IF "city" \in DOMAIN cfg /\ "country" \in DOMAIN cfg
         THEN IF "latitude" \notin DOMAIN cfg \/ "longitude" \notin DOMAIN cfg
              THEN <<Error("Old format config missing latitude or longitude", 0)>>
              ELSE <<>>
         ELSE <<Error("Config must have either 'locations' or 'city'/'country'", 0)>>

emails_errors(cfg) ==
    IF "emails" \in DOMAIN cfg
    THEN IF cfg["emails"].kind # "list"
         THEN <<Error("'emails' must be a list", 0)>>
         ELSE IF Len(cfg["emails"].items) = 0
              THEN <<Error("At least one email must be configured", 0)>>
              ELSE Flatten([x \in DOMAIN cfg["emails"].items |->
                               IF ~validate_email(cfg["emails"].items[x])
                               THEN <<Error("Invalid email format", x)>>
                               ELSE <<>>])
    ELSE IF "email" \in DOMAIN cfg
         THEN IF ~validate_email(cfg["email"])
              THEN <<Error("Invalid email format", 0)>> ELSE <<>>
         ELSE <<Error("Config must have either 'emails' or 'email'", 0)>>

validate_config(cfg) ==
    threshold_errors(cfg) \o locations_errors(cfg) \o emails_errors(cfg)

----------------------------------------------------------------------------
(* json.dump / json.load of a configuration *)

\* order in which the members of the top-level object are written
key_order == <<"locations", "emails", "email", "city", "country",
               "latitude", "longitude", "notification_threshold">>

JString(s) == [jt |-> "string", s |-> s]
JNull == [jt |-> "null"]
JNumber(v) == [jt |-> "number", v |-> v]
JArray(elems) == [jt |-> "array", elems |-> elems]
JObject(members) == [jt |-> "object", members |-> members]
Member(name, value) == [name |-> name, value |-> value]

coordinate_to_json(c) == IF c.kind = "float" THEN JNumber(c.v) ELSE JNull

coordinate_from_json(j) == IF j.jt = "number" THEN Float(j.v) ELSE NoneValue

location_key_to_json(k, v) ==
    IF k \in {"latitude", "longitude"} THEN coordinate_to_json(v) ELSE JString(v)

location_key_from_json(k, j) ==
    IF k \in {"latitude", "longitude"} THEN coordinate_from_json(j) ELSE j.s

keys_present(d) == SelectSeq(key_order, LAMBDA k : k \in DOMAIN d)

\* index of the member that decides the value of name k: the last one
last_member(members, k) ==
    CHOOSE x \in DOMAIN members :
        /\ members[x].name = k
        /\ \A y \in DOMAIN members : members[y].name = k => y <= x

member_names(members) == {members[x].name : x \in DOMAIN members}

location_to_json(loc) ==
    IF loc.kind = "dict"
    THEN JObject([x \in DOMAIN keys_present(loc.d) |->
                    Member(keys_present(loc.d)[x],
                           location_key_to_json(keys_present(loc.d)[x],
                                                loc.d[keys_present(loc.d)[x]]))])
    ELSE JNull

\* an object decodes to a dict; a repeated name keeps its last value
location_from_json(j) ==
    IF j.jt = "object"
    THEN Dict([k \in member_names(j.members) |->
                 location_key_from_json(k, j.members[last_member(j.members, k)].value)])
    ELSE NotADict

config_key_to_json(k, v) ==
    CASE k = "locations" ->
           IF v.kind = "list"
           THEN JArray([x \in DOMAIN v.items |-> location_to_json(v.items[x])])
           ELSE JNull
      [] k = "emails" ->
           IF v.kind = "list"
           THEN JArray([x \in DOMAIN v.items |-> JString(v.items[x])])
           ELSE JNull
      [] k \in {"latitude", "longitude"} -> coordinate_to_json(v)
      [] OTHER -> JString(v)

config_key_from_json(k, j) ==
    CASE k = "locations" ->
           IF j.jt = "array"
           THEN List([x \in DOMAIN j.elems |-> location_from_json(j.elems[x])])
           ELSE NotAList
      [] k = "emails" ->
           IF j.jt = "array"
           THEN List([x \in DOMAIN j.elems |-> j.elems[x].s])
           ELSE NotAList
      [] k \in {"latitude", "longitude"} -> coordinate_from_json(j)
      [] OTHER -> j.s

\* json.dump(config, f, indent=2): the members of the top-level object
json_dump(cfg) ==
    [x \in DOMAIN keys_present(cfg) |->
        Member(keys_present(cfg)[x],
               config_key_to_json(keys_present(cfg)[x], cfg[keys_present(cfg)[x]]))]

\* json.load(f)
json_load(members) ==
    [k \in member_names(members) |->
        config_key_from_json(k, members[last_member(members, k)].value)]

\* config.json on disk
NoFile == [state |-> "absent", members |-> <<>>]
CorruptFile == [state |-> "corrupt", members |-> <<>>]
JsonFile(cfg) == [state |-> "json", members |-> json_dump(cfg)]

config_exists == file.state # "absent"

----------------------------------------------------------------------------
(* load_config / save_config *)

Line(text, loc, kp) == [text |-> text, loc |-> loc, kp |-> kp]

\* what load_config does on the file f: the dict it returns, or the
\* sys.exit message and the lines printed before it
load_config(f) ==
    IF f.state = "absent"
    THEN [ok |-> FALSE, config |-> EmptyDict, printed |-> <<>>,
          msg |-> "Configuration file not found"]
    ELSE IF f.state = "corrupt"
    THEN [ok |-> FALSE, config |-> EmptyDict, printed |-> <<>>,
          msg |-> "Error: Configuration file is corrupted"]
    ELSE LET cfg == json_load(f.members)
             errors == validate_config(cfg)
         IN IF errors # <<>>
            THEN [ok |-> FALSE, config |-> EmptyDict,
                  printed |-> <<Line("Configuration validation errors:", 0, 0)>>
                              \o [x \in DOMAIN errors |->
                                     Line(errors[x].msg, errors[x].loc, 0)],
                  msg |-> "Please run 'python main.py configure' to fix the configuration"]
            ELSE [ok |-> TRUE, config |-> cfg, printed |-> <<>>, msg |-> ""]

\* save_config writing the two lists only
save_config_lists_only(cfg) ==
    [state |-> "json",
     members |-> json_dump(Restrict(cfg, DOMAIN cfg \cap {"locations", "emails"}))]

\* save_config: the file it leaves
save_config(cfg) == [state |-> "json", members |-> json_dump(cfg)]

----------------------------------------------------------------------------
(* Sample inputs *)

Place(x) ==
    Location("City" \o ToString(x), "Norway", Float(59 + x), Float(10 + x))

\* a well-formed address, different for each x: x letters, then "@b.co"
Address(x) == [y \in 1..x |-> "a"] \o <<"@", "b", ".", "c", "o">>

NoAtAddress == <<"a", "b", ".", "c", "o">>
NoSuffixAddress == <<"a", "@", "b">>
PaddedAddress == <<" ">> \o Address(1) \o <<" ">>

LatSamples ==
    ((-LatLimit - CoordMargin)..(-LatLimit)) \cup {60}
        \cup (LatLimit..(LatLimit + CoordMargin))

LngSamples ==
    ((-LngLimit - CoordMargin)..(-LngLimit)) \cup {11}
        \cup (LngLimit..(LngLimit + CoordMargin))

Legacy(loc) == loc.d

RawLocationParts ==
    {EmptyDict,
     [locations |-> NotAList],
     [locations |-> List(<<>>)],
     [locations |-> List(<<NotADict>>)],
     [locations |-> List(<<Place(1), Dict(DictPop(Place(2).d, "latitude"))>>)],
     [locations |-> List(<<Dict(DictSet(Place(1).d, "longitude", NoneValue))>>)],
     DictPop(Legacy(Place(1)), "latitude"),
     DictPop(Legacy(Place(1)), "country"),
     DictSet(Legacy(Place(1)), "latitude", NoneValue)}
    \cup {[locations |-> List(<<Location("Oslo", "Norway", Float(lat), Float(lng))>>)] :
             lat \in LatSamples, lng \in LngSamples}
    \cup {[locations |-> List(<<Place(1), Location("Oslo", "Norway", Float(lat), Float(11))>>)] :
             lat \in LatSamples}
    \cup {Legacy(Location("Oslo", "Norway", Float(lat), Float(lng))) :
             lat \in LatSamples, lng \in LngSamples}

RawEmailParts ==
    {EmptyDict,
     [email |-> Address(1)],
     [email |-> NoSuffixAddress],
     [emails |-> NotAList],
     [emails |-> List(<<>>)],
     [emails |-> List(<<PaddedAddress>>)],
     [emails |-> List(<<Address(1), Address(2)>>)],
     [emails |-> List(<<Address(1), NoAtAddress>>)]}

RawThresholdParts ==
    {EmptyDict} \cup
    {[notification_threshold |-> t] : t \in {"HIGH", "MODERATE", "ALL", "LOW"}}

RawConfigs ==
    {l @@ e @@ t : l \in RawLocationParts, e \in RawEmailParts,
                   t \in RawThresholdParts}

RawFiles == {NoFile, CorruptFile} \cup {JsonFile(c) : c \in RawConfigs}

----------------------------------------------------------------------------
(* Initial states *)

InitLocals ==
    /\ pc = "start"
    /\ config = EmptyDict
    /\ exit_msg = ""
    /\ locations = <<>>
    /\ emails = <<>>
    /\ threshold = ""
    /\ kp_threshold = 0
    /\ n = 0
    /\ notification_locations = <<>>
    /\ output = <<>>
    /\ fetched = <<>>
    /\ composed = <<>>
    /\ sent = <<>>
    /\ saved = <<>>

\* load_config called on an arbitrary config.json
InitLoad ==
    /\ file \in RawFiles
    /\ cmd = "load_config"
    /\ InitLocals

----------------------------------------------------------------------------
(* load_config as a command of its own *)

LoadReturns ==
    /\ cmd = "load_config" /\ pc = "start"
    /\ load_config(file).ok
    /\ config' = load_config(file).config
    /\ pc' = "done"
    /\ UNCHANGED <<file, cmd, exit_msg, output, saved, checkVars>>

LoadExits ==
    /\ cmd = "load_config" /\ pc = "start"
    /\ ~load_config(file).ok
    /\ output' = output \o load_config(file).printed
    /\ exit_msg' = load_config(file).msg
    /\ pc' = "exit"
    /\ UNCHANGED <<file, cmd, config, saved, checkVars>>

NextLoad == LoadReturns \/ LoadExits

SpecLoad == InitLoad /\ [][NextLoad]_vars

----------------------------------------------------------------------------
(* validate_email as a command of its own *)

\* the characters of the strings tried: a letter, a digit, the two
\* separators of the pattern and a blank
EmailChars == {"a", "1", "@", ".", " "}

\* all strings over EmailChars of length 0..MaxEmailLen
EmailStrings ==
    UNION {[1..len -> EmailChars] : len \in 0..MaxEmailLen}

InitEmail ==
    /\ file = NoFile
    /\ cmd = "validate_email"
    /\ pc = "start"
    /\ config = EmptyDict
    /\ exit_msg = ""
    /\ locations = <<>>
    /\ emails \in {<<s>> : s \in EmailStrings}
    /\ threshold = ""
    /\ kp_threshold = 0
    /\ n = 0
    /\ notification_locations = <<>>
    /\ output = <<>>
    /\ fetched = <<>>
    /\ composed = <<>>
    /\ sent = <<>>
    /\ saved = <<>>

\* the call validate_email(emails[0]); its result is printed
ValidateEmail ==
    /\ cmd = "validate_email" /\ pc = "start"
    /\ output' = <<Line(IF validate_email(emails[1]) THEN "True" ELSE "False", 0, 0)>>
    /\ pc' = "done"
    /\ UNCHANGED <<file, cmd, config, exit_msg, locations, emails, threshold,
                   kp_threshold, n, notification_locations, fetched, composed,
                   sent, saved>>

NextEmail == ValidateEmail

SpecEmail == InitEmail /\ [][NextEmail]_vars

----------------------------------------------------------------------------
(* check: configuration of a run *)

\* locations = config.get("locations", []), or the legacy fields as one entry
check_locations(cfg) ==
    LET listed == IF "locations" \in DOMAIN cfg THEN cfg["locations"].items
                  ELSE <<>>
    IN IF listed = <<>> /\ "city" \in DOMAIN cfg
       THEN <<Location(cfg["city"], cfg["country"],
                       cfg["latitude"], cfg["longitude"])>>
       ELSE listed

\* config.get("emails", [config.get("email")] if config.get("email") else [])
check_emails(cfg) ==
    IF "emails" \in DOMAIN cfg THEN cfg["emails"].items
    ELSE IF "email" \in DOMAIN cfg /\ cfg["email"] # <<>>
         THEN <<cfg["email"]>> ELSE <<>>

\* config.get("notification_threshold", "HIGH")
check_threshold(cfg) ==
    IF "notification_threshold" \in DOMAIN cfg
    THEN cfg["notification_threshold"] ELSE "HIGH"

\* the cutoffs of MODERATE and of HIGH exchanged
threshold_setting_exchanged(name) ==
    IF name = "MODERATE"
    THEN [kp_threshold |-> HighCutoff, desc |-> "KP >= 3.0"]
    ELSE IF name = "ALL"
    THEN [kp_threshold |-> AllCutoff, desc |-> "KP > 0"]
    ELSE [kp_threshold |-> ModerateCutoff, desc |-> "KP >= 5.0"]

\* kp_threshold and threshold_desc for a threshold name
threshold_setting(name) ==
    IF name = "MODERATE"
    THEN [kp_threshold |-> ModerateCutoff, desc |-> "KP >= 3.0"]
    ELSE IF name = "ALL"
    THEN [kp_threshold |-> AllCutoff, desc |-> "KP > 0"]
    ELSE [kp_threshold |-> HighCutoff, desc |-> "KP >= 5.0"]

----------------------------------------------------------------------------
(* check: one location *)

FetchErrors == {"Timeout", "ConnectionError", "RequestException"}

fetch_error_msg(e) ==
    CASE e = "Timeout" -> "Error: Aurora API request timed out"
      [] e = "ConnectionError" -> "Error: Could not connect to Aurora API"
      [] OTHER -> "Error: Failed to fetch aurora data"

\* the KP values of the API, one below the scale included
KpValues == (-1)..MaxKp

KpFields == {NoneValue} \cup {Float(v) : v \in KpValues}

\* the "current" member of "ace": absent, or a dict with or without "kp"
CurrentParts ==
    {EmptyDict, [current |-> EmptyDict]}
        \cup {[current |-> [kp |-> k]] : k \in KpFields}

AceDicts ==
    {k @@ c : k \in {EmptyDict} \cup {[kp |-> v] : v \in KpFields},
              c \in CurrentParts}

\* parsed JSON bodies of the aurora API
Responses == {EmptyDict} \cup {[ace |-> a] : a \in AceDicts}

dict_get(d, k) == IF k \in DOMAIN d THEN d[k] ELSE NoneValue

\* the extraction testing "not kp_index" for "kp_index is None": a KP of 0
\* at ace.kp is passed over for ace.current.kp
extract_kp_falsy(data) ==
    IF "ace" \in DOMAIN data
    THEN LET kp_index == dict_get(data["ace"], "kp")
         IN IF kp_index \in {NoneValue, Float(0)} /\ "current" \in DOMAIN data["ace"]
            THEN dict_get(data["ace"]["current"], "kp")
            ELSE kp_index
    ELSE NoneValue

\* kp_index as extracted from the response
extract_kp(data) ==
    IF "ace" \in DOMAIN data
    THEN LET kp_index == dict_get(data["ace"], "kp")
         IN IF kp_index = NoneValue /\ "current" \in DOMAIN data["ace"]
            THEN dict_get(data["ace"]["current"], "kp")
            ELSE kp_index
    ELSE NoneValue

\* location_status without the kp_value > 0 test of the LOW branch
location_status_without_positive_test(kp_value, cutoff) ==
    IF kp_value >= TierHigh
    THEN [tier |-> "HIGH visibility!", notify |-> kp_value >= cutoff]
    ELSE IF kp_value >= TierModerate
    THEN [tier |-> "MODERATE visibility", notify |-> kp_value >= cutoff]
    ELSE [tier |-> "LOW visibility", notify |-> kp_value >= cutoff]

\* the status line of a location and whether it joins the notification list
location_status(kp_value, cutoff) ==
    IF kp_value >= TierHigh
    THEN [tier |-> "HIGH visibility!", notify |-> kp_value >= cutoff]
    ELSE IF kp_value >= TierModerate
    THEN [tier |-> "MODERATE visibility", notify |-> kp_value >= cutoff]
    ELSE [tier |-> "LOW visibility",
          notify |-> kp_value > 0 /\ kp_value >= cutoff]

\* location_step returning from check instead of continuing when KP is missing
location_step_returning(loc, x, data, cutoff) ==
    LET kp_index == extract_kp(data)
    IN IF kp_index = NoneValue
       THEN [printed |-> <<Line("Unable to determine KP index", x, 0)>>,
             appended |-> <<>>, next |-> "done"]
       ELSE LET kp_value == kp_index.v
                status == location_status(kp_value, cutoff)
            IN [printed |-> <<Line(status.tier, x, kp_value)>>,
                appended |-> IF status.notify THEN <<<<loc, kp_value>>>>
                             ELSE <<>>,
                next |-> "fetch"]

\* the body of the loop over locations, after the response has arrived:
\* the lines printed, the pairs appended, and whether the loop goes on
location_step(loc, x, data, cutoff) ==
    LET kp_index == extract_kp(data)
    IN IF kp_index = NoneValue
       THEN [printed |-> <<Line("Unable to determine KP index", x, 0)>>,
             appended |-> <<>>, next |-> "fetch"]
       ELSE LET kp_value == kp_index.v
                status == location_status(kp_value, cutoff)
            IN [printed |-> <<Line(status.tier, x, kp_value)>>,
                appended |-> IF status.notify THEN <<<<loc, kp_value>>>>
                             ELSE <<>>,
                next |-> "fetch"]

Request(loc, outcome, kp_index) ==
    [lat |-> loc.d["latitude"], long |-> loc.d["longitude"],
     outcome |-> outcome, kp_index |-> kp_index]

\* the notification list the loop builds over locs from the answers the
\* requests got, in the order of the requests
notification_list(locs, cutoff, requests) ==
    Flatten([x \in DOMAIN requests |->
                IF /\ x \in DOMAIN locs
                   /\ requests[x].outcome = "ok"
                   /\ requests[x].kp_index # NoneValue
                   /\ location_status(requests[x].kp_index.v, cutoff).notify
                THEN <<<<locs[x], requests[x].kp_index.v>>>>
                ELSE <<>>])

----------------------------------------------------------------------------
(* The KP extraction of check as a command of its own *)

InitExtract ==
    /\ file = NoFile
    /\ cmd = "extract_kp"
    /\ pc = "start"
    /\ config = EmptyDict
    /\ exit_msg = ""
    /\ locations = <<>>
    /\ emails = <<>>
    /\ threshold = ""
    /\ kp_threshold = 0
    /\ n = 0
    /\ notification_locations = <<>>
    /\ output = <<>>
    /\ fetched \in {<<data>> : data \in Responses}
    /\ composed = <<>>
    /\ sent = <<>>
    /\ saved = <<>>

\* lines 261-272 of check on the response fetched[1]: the warning when the
\* KP is missing, the value otherwise
ExtractKp ==
    /\ cmd = "extract_kp" /\ pc = "start"
    /\ LET kp_index == extract_kp(fetched[1])
       IN output' = IF kp_index = NoneValue
                    THEN <<Line("Unable to determine KP index", 1, 0)>>
                    ELSE <<Line("KP", 1, kp_index.v)>>
    /\ pc' = "done"
    /\ UNCHANGED <<file, cmd, config, exit_msg, locations, emails, threshold,
                   kp_threshold, n, notification_locations, fetched, composed,
                   sent, saved>>

NextExtract == ExtractKp

SpecExtract == InitExtract /\ [][NextExtract]_vars

----------------------------------------------------------------------------
(* The notification decision of check as a command of its own *)

\* the threshold part of a configuration: the key absent, then each name
threshold_configs ==
    <<EmptyDict>> \o
    [x \in DOMAIN valid_thresholds |-> [notification_threshold |-> valid_thresholds[x]]]

\* whether lines 234-287 put a location with this KP value in the list
\* when the configuration has this threshold part
qualifies(cfg, kp_value) ==
    location_status(kp_value,
                    threshold_setting(check_threshold(cfg)).kp_threshold).notify

InitStatus ==
    /\ file = NoFile
    /\ cmd = "location_status"
    /\ pc = "start"
    /\ config = EmptyDict
    /\ exit_msg = ""
    /\ locations = <<>>
    /\ emails = <<>>
    /\ threshold = ""
    /\ kp_threshold = 0
    /\ n = 0
    /\ notification_locations = <<>>
    /\ output = <<>>
    /\ fetched \in {<<Float(k1), Float(k2)>> : k1 \in KpValues, k2 \in KpValues}
    /\ composed = <<>>
    /\ sent = <<>>
    /\ saved = <<>>

\* the decision taken for the two KP values of fetched under every threshold
\* part: the (threshold part, KP) pairs that qualify
StatusAll ==
    /\ cmd = "location_status" /\ pc = "start"
    /\ notification_locations' =
           Flatten([x \in DOMAIN fetched |->
               Flatten([y \in DOMAIN threshold_configs |->
                   IF qualifies(threshold_configs[y], fetched[x].v)
                   THEN <<<<threshold_configs[y], fetched[x].v>>>>
                   ELSE <<>>])])
    /\ pc' = "done"
    /\ UNCHANGED <<file, cmd, config, exit_msg, locations, emails, threshold,
                   kp_threshold, n, output, fetched, composed, sent, saved>>

NextStatus == StatusAll

SpecStatus == InitStatus /\ [][NextStatus]_vars

----------------------------------------------------------------------------
(* check: actions *)

CheckLoadExits ==
    /\ cmd = "check" /\ pc = "start"
    /\ ~load_config(file).ok
    /\ output' = output \o load_config(file).printed
    /\ exit_msg' = load_config(file).msg
    /\ pc' = "exit"
    /\ UNCHANGED <<file, cmd, config, saved, checkVars>>

\* the configured locations taken from the last to the first
CheckBegin_latest_first ==
    /\ cmd = "check" /\ pc = "start"
    /\ load_config(file).ok
    /\ LET cfg == load_config(file).config
           setting == threshold_setting(check_threshold(cfg))
       IN /\ config' = cfg
          /\ locations' = [x \in DOMAIN check_locations(cfg) |->
                              check_locations(cfg)[Len(check_locations(cfg)) + 1 - x]]
          /\ IF check_locations(cfg) = <<>>
             THEN /\ output' = Append(output, Line("No locations configured", 0, 0))
                  /\ pc' = "done"
                  /\ UNCHANGED <<emails, threshold, kp_threshold, n>>
             ELSE /\ emails' = check_emails(cfg)
                  /\ IF check_emails(cfg) = <<>>
                     THEN /\ output' = Append(output,
                                 Line("Warning: No email addresses configured", 0, 0))
                          /\ pc' = "done"
                          /\ UNCHANGED <<threshold, kp_threshold, n>>
                     ELSE /\ threshold' = check_threshold(cfg)
                          /\ kp_threshold' = setting.kp_threshold
                          /\ output' = Append(output,
                                 Line("Notification threshold: " \o setting.desc, 0, 0))
                          /\ n' = 1
                          /\ pc' = "fetch"
    /\ UNCHANGED <<file, cmd, exit_msg, notification_locations, fetched,
                   composed, sent, saved>>

\* from load_config to the first API request
CheckBegin ==
    /\ cmd = "check" /\ pc = "start"
    /\ load_config(file).ok
    /\ LET cfg == load_config(file).config
           setting == threshold_setting(check_threshold(cfg))
       IN /\ config' = cfg
          /\ locations' = check_locations(cfg)
          /\ IF check_locations(cfg) = <<>>
             THEN /\ output' = Append(output, Line("No locations configured", 0, 0))
                  /\ pc' = "done"
                  /\ UNCHANGED <<emails, threshold, kp_threshold, n>>
             ELSE /\ emails' = check_emails(cfg)
                  /\ IF check_emails(cfg) = <<>>
                     THEN /\ output' = Append(output,
                                 Line("Warning: No email addresses configured", 0, 0))
                          /\ pc' = "done"
                          /\ UNCHANGED <<threshold, kp_threshold, n>>
                     ELSE /\ threshold' = check_threshold(cfg)
                          /\ kp_threshold' = setting.kp_threshold
                          /\ output' = Append(output,
                                 Line("Notification threshold: " \o setting.desc, 0, 0))
                          /\ n' = 1
                          /\ pc' = "fetch"
    /\ UNCHANGED <<file, cmd, exit_msg, notification_locations, fetched,
                   composed, sent, saved>>

\* a failed request that is reported and skipped instead of ending the process
CheckFetchFails_skipping ==
    /\ cmd = "check" /\ pc = "fetch" /\ n <= Len(locations)
    /\ \E e \in FetchErrors :
         /\ fetched' = Append(fetched, Request(locations[n], e, NoneValue))
         /\ output' = Append(output, Line(fetch_error_msg(e), n, 0))
    /\ n' = n + 1
    /\ UNCHANGED <<file, cmd, config, exit_msg, pc, locations, emails,
                   threshold, kp_threshold, notification_locations,
                   composed, sent, saved>>

\* fetch_aurora_data ends the process on a failed request
CheckFetchFails ==
    /\ cmd = "check" /\ pc = "fetch" /\ n <= Len(locations)
    /\ \E e \in FetchErrors :
         /\ fetched' = Append(fetched, Request(locations[n], e, NoneValue))
         /\ exit_msg' = fetch_error_msg(e)
    /\ pc' = "exit"
    /\ UNCHANGED <<file, cmd, config, locations, emails, threshold,
                   kp_threshold, n, notification_locations, output,
                   composed, sent, saved>>

\* the loop over locations printing a status line for notified locations only
CheckLocation_quiet ==
    /\ cmd = "check" /\ pc = "fetch" /\ n <= Len(locations)
    /\ \E data \in Responses :
         LET step == location_step(locations[n], n, data, kp_threshold)
         IN /\ fetched' = Append(fetched,
                             Request(locations[n], "ok", extract_kp(data)))
            /\ output' = IF extract_kp(data) # NoneValue /\ step.appended = <<>>
                         THEN output ELSE output \o step.printed
            /\ notification_locations' = notification_locations \o step.appended
            /\ pc' = step.next
    /\ n' = n + 1
    /\ UNCHANGED <<file, cmd, config, exit_msg, locations, emails, threshold,
                   kp_threshold, composed, sent, saved>>

\* one iteration of the loop over locations
CheckLocation ==
    /\ cmd = "check" /\ pc = "fetch" /\ n <= Len(locations)
    /\ \E data \in Responses :
         LET step == location_step(locations[n], n, data, kp_threshold)
         IN /\ fetched' = Append(fetched,
                             Request(locations[n], "ok", extract_kp(data)))
            /\ output' = output \o step.printed
            /\ notification_locations' = notification_locations \o step.appended
            /\ pc' = step.next
    /\ n' = n + 1
    /\ UNCHANGED <<file, cmd, config, exit_msg, locations, emails, threshold,
                   kp_threshold, composed, sent, saved>>

\* subject line of the alert
alert_subject(notified) ==
    IF Len(notified) = 1
    THEN [text |-> "Aurora Alert: Visibility at", city |-> notified[1][1].d["city"], count |-> 1]
    ELSE [text |-> "Aurora Alert: Visibility at locations", city |-> "", count |-> Len(notified)]

\* create_aurora_alert_email: one table row per (location, kp) pair
create_aurora_alert_email(notified) ==
    [x \in DOMAIN notified |->
        [city |-> notified[x][1].d["city"], country |-> notified[x][1].d["country"],
         lat |-> notified[x][1].d["latitude"], long |-> notified[x][1].d["longitude"],
         kp |-> notified[x][2]]]

\* after the loop: nothing qualifies
CheckNothing ==
    /\ cmd = "check" /\ pc = "fetch" /\ n > Len(locations)
    /\ notification_locations = <<>>
    /\ output' = Append(output, Line("No locations meet notification threshold", 0, 0))
    /\ pc' = "done"
    /\ UNCHANGED <<file, cmd, config, exit_msg, saved, checkVars>>

\* composing as soon as one location has qualified, before the loop is over
CheckCompose_early ==
    /\ cmd = "check" /\ pc = "fetch" /\ n > 1
    /\ notification_locations # <<>>
    /\ output' = Append(output, Line("Sending notification to recipient(s)", 0, Len(emails)))
    /\ composed' = Append(composed,
                          [subject |-> alert_subject(notification_locations),
                           body |-> create_aurora_alert_email(notification_locations)])
    /\ n' = 1
    /\ pc' = "send"
    /\ UNCHANGED <<file, cmd, config, exit_msg, locations, emails, threshold,
                   kp_threshold, notification_locations, fetched, sent, saved>>

\* after the loop: compose the alert once
CheckCompose ==
    /\ cmd = "check" /\ pc = "fetch" /\ n > Len(locations)
    /\ notification_locations # <<>>
    /\ output' = Append(output, Line("Sending notification to recipient(s)", 0, Len(emails)))
    /\ composed' = Append(composed,
                          [subject |-> alert_subject(notification_locations),
                           body |-> create_aurora_alert_email(notification_locations)])
    /\ n' = 1
    /\ pc' = "send"
    /\ UNCHANGED <<file, cmd, config, exit_msg, locations, emails, threshold,
                   kp_threshold, notification_locations, fetched, sent, saved>>

SendOutcomes ==
    {"sent", "not configured", "SMTPAuthenticationError", "SMTPException",
     "Exception"}

\* send_email letting the authentication error escape
send_email_raising(to_email, outcome) ==
    CASE outcome = "sent" ->
           [returns |-> TRUE, text |-> "Email notification sent to"]
      [] outcome = "not configured" ->
           [returns |-> TRUE, text |-> "Warning: SMTP credentials not configured. Email not sent."]
      [] outcome = "SMTPAuthenticationError" ->
           [returns |-> FALSE, text |-> "Traceback"]
      [] OTHER ->
           [returns |-> TRUE, text |-> "Warning: Failed to send email"]

\* send_email: the line it prints and whether it returns to its caller
send_email(to_email, outcome) ==
    CASE outcome = "sent" ->
           [returns |-> TRUE, text |-> "Email notification sent to"]
      [] outcome = "not configured" ->
           [returns |-> TRUE, text |-> "Warning: SMTP credentials not configured. Email not sent."]
      [] outcome = "SMTPAuthenticationError" ->
           [returns |-> TRUE, text |-> "Warning: Failed to send email: Authentication failed"]
      [] OTHER ->
           [returns |-> TRUE, text |-> "Warning: Failed to send email"]

\* the loop over recipients composing the alert again for every recipient
CheckSend_composing ==
    /\ cmd = "check" /\ pc = "send" /\ n <= Len(emails)
    /\ composed' = Append(composed,
                          [subject |-> alert_subject(notification_locations),
                           body |-> create_aurora_alert_email(notification_locations)])
    /\ \E outcome \in SendOutcomes :
         LET call == send_email(emails[n], outcome)
         IN /\ sent' = Append(sent, [to |-> emails[n], outcome |-> outcome,
                                     message |-> composed'[Len(composed')]])
            /\ output' = Append(output, Line(call.text, n, 0))
            /\ IF call.returns
               THEN pc' = "send" /\ exit_msg' = exit_msg
               ELSE pc' = "exit" /\ exit_msg' = outcome
    /\ n' = n + 1
    /\ UNCHANGED <<file, cmd, config, locations, emails, threshold,
                   kp_threshold, notification_locations, fetched, saved>>

\* one iteration of the loop over recipients
CheckSend ==
    /\ cmd = "check" /\ pc = "send" /\ n <= Len(emails)
    /\ \E outcome \in SendOutcomes :
         LET call == send_email(emails[n], outcome)
         IN /\ sent' = Append(sent, [to |-> emails[n], outcome |-> outcome,
                                     message |-> composed[Len(composed)]])
            /\ output' = Append(output, Line(call.text, n, 0))
            /\ IF call.returns
               THEN pc' = "send" /\ exit_msg' = exit_msg
               ELSE pc' = "exit" /\ exit_msg' = outcome
    /\ n' = n + 1
    /\ UNCHANGED <<file, cmd, config, locations, emails, threshold,
                   kp_threshold, notification_locations, fetched, composed, saved>>

\* the closing line printed only when some send went through
CheckEnd_when_delivered ==
    /\ cmd = "check" /\ pc = "send" /\ n > Len(emails)
    /\ output' = IF \E x \in DOMAIN sent : sent[x].outcome = "sent"
                 THEN Append(output, Line("Notification sent for location(s)!", 0,
                                          Len(notification_locations)))
                 ELSE Append(output, Line("No notification sent", 0, 0))
    /\ pc' = "done"
    /\ UNCHANGED <<file, cmd, config, exit_msg, saved, checkVars>>

CheckEnd ==
    /\ cmd = "check" /\ pc = "send" /\ n > Len(emails)
    /\ output' = Append(output, Line("Notification sent for location(s)!", 0,
                                     Len(notification_locations)))
    /\ pc' = "done"
    /\ UNCHANGED <<file, cmd, config, exit_msg, saved, checkVars>>

----------------------------------------------------------------------------
(* test_email *)

\* emails = config.get("emails", [config.get("email")] if config.get("email") else [])
test_email_emails(cfg) ==
    IF "emails" \in DOMAIN cfg THEN cfg["emails"].items
    ELSE IF "email" \in DOMAIN cfg /\ cfg["email"] # <<>>
         THEN <<cfg["email"]>> ELSE <<>>

\* locations = config.get("locations", []), or the legacy fields as one entry
test_email_locations(cfg) ==
    LET listed == IF "locations" \in DOMAIN cfg THEN cfg["locations"].items
                  ELSE <<>>
    IN IF listed = <<>> /\ "city" \in DOMAIN cfg
       THEN <<Location(cfg["city"], cfg["country"],
                       cfg["latitude"], cfg["longitude"])>>
       ELSE listed

test_subject ==
    [text |-> "Northern Lights - Email Test", city |-> "", count |-> 0]

\* create_test_email: one table row per location
create_test_email(locs) ==
    [x \in DOMAIN locs |->
        [city |-> locs[x].d["city"], country |-> locs[x].d["country"],
         lat |-> locs[x].d["latitude"], long |-> locs[x].d["longitude"]]]

TestEmailLoadExits ==
    /\ cmd = "test_email" /\ pc = "start"
    /\ ~load_config(file).ok
    /\ output' = output \o load_config(file).printed
    /\ exit_msg' = load_config(file).msg
    /\ pc' = "exit"
    /\ UNCHANGED <<file, cmd, config, saved, checkVars>>

\* from load_config to the first send
TestEmailBegin ==
    /\ cmd = "test_email" /\ pc = "start"
    /\ load_config(file).ok
    /\ LET cfg == load_config(file).config
       IN /\ config' = cfg
          /\ emails' = test_email_emails(cfg)
          /\ IF test_email_emails(cfg) = <<>>
             THEN /\ output' = Append(output,
                         Line("Error: No email addresses configured.", 0, 0))
                  /\ pc' = "done"
                  /\ UNCHANGED <<locations, composed, n>>
             ELSE /\ output' = output \o
                         <<Line("Testing email configuration...", 0, 0),
                           Line("Sending test email to", 0, Len(test_email_emails(cfg)))>>
                  /\ locations' = test_email_locations(cfg)
                  /\ composed' = Append(composed,
                         [subject |-> test_subject,
                          body |-> create_test_email(test_email_locations(cfg))])
                  /\ n' = 1
                  /\ pc' = "send"
    /\ UNCHANGED <<file, cmd, exit_msg, threshold, kp_threshold,
                   notification_locations, fetched, sent, saved>>

\* the loop over recipients ending at the first send that fails
TestEmailSend_stopping ==
    /\ cmd = "test_email" /\ pc = "send" /\ n <= Len(emails)
    /\ \E outcome \in SendOutcomes :
         LET call == send_email(emails[n], outcome)
         IN /\ sent' = Append(sent, [to |-> emails[n], outcome |-> outcome,
                                     message |-> composed[Len(composed)]])
            /\ output' = Append(output, Line(call.text, n, 0))
            /\ IF call.returns
               THEN /\ pc' = IF outcome = "sent" THEN "send" ELSE "done"
                    /\ exit_msg' = exit_msg
               ELSE pc' = "exit" /\ exit_msg' = outcome
    /\ n' = n + 1
    /\ UNCHANGED <<file, cmd, config, locations, emails, threshold,
                   kp_threshold, notification_locations, fetched, composed, saved>>

\* one iteration of the loop over recipients
TestEmailSend ==
    /\ cmd = "test_email" /\ pc = "send" /\ n <= Len(emails)
    /\ \E outcome \in SendOutcomes :
         LET call == send_email(emails[n], outcome)
         IN /\ sent' = Append(sent, [to |-> emails[n], outcome |-> outcome,
                                     message |-> composed[Len(composed)]])
            /\ output' = Append(output, Line(call.text, n, 0))
            /\ IF call.returns
               THEN pc' = "send" /\ exit_msg' = exit_msg
               ELSE pc' = "exit" /\ exit_msg' = outcome
    /\ n' = n + 1
    /\ UNCHANGED <<file, cmd, config, locations, emails, threshold,
                   kp_threshold, notification_locations, fetched, composed, saved>>

TestEmailEnd ==
    /\ cmd = "test_email" /\ pc = "send" /\ n > Len(emails)
    /\ output' = Append(output, Line("Test email sent to recipient(s)! Check your inbox.",
                                     0, Len(emails)))
    /\ pc' = "done"
    /\ UNCHANGED <<file, cmd, config, exit_msg, saved, checkVars>>

----------------------------------------------------------------------------
(* The check and test-email commands *)

CheckLocationParts ==
    {Legacy(Place(1))}
        \cup {[locations |-> List([x \in 1..k |-> Place(x)])] : k \in 1..MaxLocations}

CheckEmailParts ==
    {[email |-> Address(1)]}
        \cup {[emails |-> List([x \in 1..k |-> Address(x)])] : k \in 1..MaxRecipients}

CheckThresholdParts ==
    {EmptyDict} \cup
    {[notification_threshold |-> valid_thresholds[x]] : x \in DOMAIN valid_thresholds}

\* a location one CoordMargin north of the valid range
OutOfRangePlace ==
    Location("Oslo", "Norway", Float(LatLimit + CoordMargin), Float(11))

\* files load_config may refuse: a list left empty, an empty legacy email,
\* a coordinate out of range in the legacy fields and in the locations list
DoubtfulFiles ==
    {JsonFile([locations |-> List(<<>>), emails |-> List(<<Address(1)>>)]),
     JsonFile([locations |-> List(<<Place(1)>>), emails |-> List(<<>>)]),
     JsonFile(Legacy(Place(1)) @@ [email |-> <<>>]),
     JsonFile(Legacy(OutOfRangePlace) @@ [email |-> Address(1)]),
     JsonFile([locations |-> List(<<OutOfRangePlace>>),
               emails |-> List(<<Address(1)>>)])}

CheckFiles ==
    {NoFile, CorruptFile, JsonFile([email |-> Address(1)])}
        \cup DoubtfulFiles
        \cup {JsonFile(l @@ e @@ t) : l \in CheckLocationParts,
                                      e \in CheckEmailParts,
                                      t \in CheckThresholdParts}

Init ==
    /\ file \in CheckFiles
    /\ cmd \in {"check", "test_email"}
    /\ InitLocals

Next ==
    \/ CheckLoadExits
    \/ CheckBegin
    \/ CheckFetchFails
    \/ CheckLocation
    \/ CheckNothing
    \/ CheckCompose
    \/ CheckSend
    \/ CheckEnd
    \/ TestEmailLoadExits
    \/ TestEmailBegin
    \/ TestEmailSend
    \/ TestEmailEnd

Spec == Init /\ [][Next]_vars

\* the send loop runs to its end: every SMTP session has a timeout and
\* send_email returns on every error, so the next iteration of the loop and
\* the statement after the loop are taken
FairFiles ==
    {NoFile}
        \cup {JsonFile([locations |-> List([x \in 1..k |-> Place(x)]),
                        emails |-> List([x \in 1..m |-> Address(x)]),
                        notification_threshold |-> "MODERATE"]) :
                 k \in 1..MaxLocations, m \in 1..MaxRecipients}

InitFair ==
    /\ file \in FairFiles
    /\ cmd = "check"
    /\ InitLocals

NextCheck ==
    \/ CheckLoadExits
    \/ CheckBegin
    \/ CheckFetchFails
    \/ CheckLocation
    \/ CheckNothing
    \/ CheckCompose
    \/ CheckSend
    \/ CheckEnd

SpecFair ==
    InitFair /\ [][NextCheck]_vars /\ WF_vars(CheckSend) /\ WF_vars(CheckEnd)

----------------------------------------------------------------------------
(* configure: the handlers *)

\* lines typed at the email prompt
EmailInputs ==
    {Address(1),
     Address(1) \o <<",", " ">> \o Address(2),
     Address(1) \o <<",">> \o NoSuffixAddress,
     NoAtAddress,
     <<>>}

\* manage_emails storing what was typed without validating it
manage_emails_unvalidated(cfg, email_input) ==
    LET pieces == split(email_input, ",")
        entered == [x \in DOMAIN pieces |-> strip(pieces[x])]
    IN [config |-> DictPop(DictSet(cfg, "emails", List(entered)), "email"),
        save |-> TRUE,
        printed |-> <<Line("Email recipients updated", 0, 0)>>]

\* manage_emails from the prompt on: the dict it leaves and whether it saved
manage_emails(cfg, email_input) ==
    LET pieces == split(email_input, ",")
        entered == [x \in DOMAIN pieces |-> strip(pieces[x])]
        invalid_emails == SelectSeq(entered, LAMBDA e : ~validate_email(e))
    IN IF invalid_emails # <<>>
       THEN [config |-> cfg, save |-> FALSE,
             printed |-> <<Line("Error: Invalid email address(es)", 0, 0)>>]
       ELSE [config |-> DictPop(DictSet(cfg, "emails", List(entered)), "email"),
             save |-> TRUE,
             printed |-> <<Line("Email recipients updated", 0, 0)>>]

ThresholdChoices == {"1", "2", "3", "", "x"}

\* manage_notification_threshold from the prompt on
manage_notification_threshold(cfg, choice) ==
    CASE choice = "1" ->
           [config |-> DictSet(cfg, "notification_threshold", "HIGH"),
            save |-> TRUE,
            printed |-> <<Line("Notification threshold set to HIGH (KP >= 5)", 0, 0)>>]
      [] choice = "2" ->
           [config |-> DictSet(cfg, "notification_threshold", "MODERATE"),
            save |-> TRUE,
            printed |-> <<Line("Notification threshold set to MODERATE (KP >= 3)", 0, 0)>>]
      [] choice = "3" ->
           [config |-> DictSet(cfg, "notification_threshold", "ALL"),
            save |-> TRUE,
            printed |-> <<Line("Notification threshold set to ALL (KP > 0)", 0, 0)>>]
      [] choice = "" ->
           [config |-> cfg, save |-> FALSE,
            printed |-> <<Line("Keeping current threshold", 0, 0)>>]
      [] OTHER ->
           [config |-> cfg, save |-> FALSE,
            printed |-> <<Line("Invalid choice. Keeping current threshold.", 0, 0)>>]

\* the threshold setup_complete_config stores for the answer at its prompt
setup_threshold(choice) ==
    IF choice = "2" THEN "MODERATE" ELSE IF choice = "3" THEN "ALL" ELSE "HIGH"

\* manage_locations before its menu: legacy fields become a one-entry list
convert_legacy(cfg) ==
    IF "city" \in DOMAIN cfg /\ "locations" \notin DOMAIN cfg
    THEN DictSet(Restrict(cfg, DOMAIN cfg \ {"city", "country", "latitude", "longitude"}),
                 "locations",
                 List(<<Location(cfg["city"], cfg["country"],
                                 cfg["latitude"], cfg["longitude"])>>))
    ELSE cfg

\* list.pop() without its index: the last entry goes
list_pop_last(items, idx) ==
    [x \in 1..(Len(items) - 1) |-> items[x]]

\* list.pop(idx)
list_pop(items, idx) ==
    [x \in 1..(Len(items) - 1) |-> IF x <= idx THEN items[x] ELSE items[x + 1]]

\* answers to "Enter location number to remove: ": a number or something else
RemoveInputs(items) ==
    [numeric : BOOLEAN, number : (-1)..(Len(items) + 1)]

\* the "r" branch of manage_locations after the answer was typed
remove_location(items, typed) ==
    IF ~typed.numeric
    THEN [items |-> items, printed |-> <<Line("Invalid input.", 0, 0)>>]
    ELSE LET idx == typed.number - 1
         IN IF 0 <= idx /\ idx < Len(items)
            THEN [items |-> list_pop(items, idx),
                  printed |-> <<Line("Removed", typed.number, 0)>>]
            ELSE [items |-> items,
                  printed |-> <<Line("Invalid location number.", 0, 0)>>]

GeocodingErrors == {"not found", "GeocoderTimedOut", "GeocoderServiceError"}

geocoding_error_msg(e) ==
    CASE e = "not found" -> "Error: Could not find location"
      [] e = "GeocoderTimedOut" -> "Error: Geocoding service timed out"
      [] OTHER -> "Error: Geocoding service failed"

\* the locations list is the list object stored in the dict, when it has one
with_locations(cfg, items) ==
    IF "locations" \in DOMAIN cfg THEN DictSet(cfg, "locations", List(items))
    ELSE cfg

MenuChoices == {"1", "2", "3", "4", "5", "6", "x"}

----------------------------------------------------------------------------
(* configure: actions *)

configureFrame == <<cmd, emails, threshold, kp_threshold, n,
                    notification_locations, fetched, composed, sent>>

ConfigureLoadExits ==
    /\ cmd = "configure" /\ pc = "start"
    /\ config_exists /\ ~load_config(file).ok
    /\ output' = output \o load_config(file).printed
    /\ exit_msg' = load_config(file).msg
    /\ pc' = "exit"
    /\ UNCHANGED <<file, config, locations, saved, configureFrame>>

\* configure up to the first prompt of the handler chosen
ConfigureMenu ==
    /\ cmd = "configure" /\ pc = "start"
    /\ config_exists => load_config(file).ok
    /\ \E typed \in MenuChoices :
         LET choice == IF config_exists THEN typed ELSE "5"
             cfg == IF config_exists THEN load_config(file).config ELSE EmptyDict
         IN CASE choice = "1" ->
                   /\ config' = convert_legacy(cfg)
                   /\ locations' = IF "locations" \in DOMAIN convert_legacy(cfg)
                                   THEN convert_legacy(cfg)["locations"].items
                                   ELSE <<>>
                   /\ pc' = "manage_locations"
              [] choice = "2" ->
                   /\ config' = cfg
                   /\ locations' = locations
                   /\ pc' = "manage_emails"
              [] choice = "3" ->
                   /\ config' = cfg
                   /\ locations' = locations
                   /\ pc' = "manage_notification_threshold"
              [] choice = "5" ->
                   /\ config' = [locations |-> List(<<>>)]
                   /\ locations' = <<>>
                   /\ pc' = "setup_locations"
              [] OTHER ->
                   /\ config' = cfg
                   /\ locations' = locations
                   /\ pc' = "done"
    /\ UNCHANGED <<file, exit_msg, output, saved, configureFrame>>

\* menu choice "a" writing the file after every addition
ManageLocationsAdd_saving ==
    /\ cmd = "configure" /\ pc = "manage_locations"
    /\ Len(locations) < MaxLocations
    /\ \E x \in 1..MaxLocations :
         /\ locations' = Append(locations, Place(x))
         /\ config' = DictSet(config, "locations", List(Append(locations, Place(x))))
         /\ output' = <<Line("Added", Len(locations) + 1, 0)>>
    /\ file' = save_config(config')
    /\ saved' = <<config'>>
    /\ UNCHANGED <<pc, exit_msg, configureFrame>>

\* menu choice "a", geocoding succeeds
ManageLocationsAdd ==
    /\ cmd = "configure" /\ pc = "manage_locations"
    /\ Len(locations) < MaxLocations
    /\ \E x \in 1..MaxLocations :
         /\ locations' = Append(locations, Place(x))
         /\ config' = with_locations(config, Append(locations, Place(x)))
         /\ output' = <<Line("Added", Len(locations) + 1, 0)>>
    /\ UNCHANGED <<file, pc, exit_msg, saved, configureFrame>>

\* menu choice "a", get_coordinates ends the process
ManageLocationsAddFails ==
    /\ cmd = "configure" /\ pc = "manage_locations"
    /\ \E e \in GeocodingErrors : exit_msg' = geocoding_error_msg(e)
    /\ pc' = "exit"
    /\ UNCHANGED <<file, config, locations, output, saved, configureFrame>>

\* menu choice "r" with a non-empty list
ManageLocationsRemove ==
    /\ cmd = "configure" /\ pc = "manage_locations"
    /\ locations # <<>>
    /\ \E typed \in RemoveInputs(locations) :
         LET r == remove_location(locations, typed)
         IN /\ locations' = r.items
            /\ config' = with_locations(config, r.items)
            /\ output' = r.printed
    /\ UNCHANGED <<file, pc, exit_msg, saved, configureFrame>>

\* menu choice "d" saving whatever the list holds, an empty list too
ManageLocationsDone_saving_empty ==
    /\ cmd = "configure" /\ pc = "manage_locations"
    /\ config' = DictSet(config, "locations", List(locations))
    /\ file' = save_config(config')
    /\ saved' = <<config'>>
    /\ output' = <<Line("Locations saved", 0, Len(locations))>>
    /\ pc' = "done"
    /\ UNCHANGED <<exit_msg, locations, configureFrame>>

\* menu choice "d"
ManageLocationsDone ==
    /\ cmd = "configure" /\ pc = "manage_locations"
    /\ IF locations # <<>>
       THEN /\ config' = DictSet(config, "locations", List(locations))
            /\ file' = save_config(config')
            /\ saved' = <<config'>>
            /\ output' = <<Line("Locations saved", 0, Len(locations))>>
            /\ pc' = "done"
       ELSE /\ output' = <<Line("Warning: No locations configured.", 0, 0)>>
            /\ UNCHANGED <<config, file, saved, pc>>
    /\ UNCHANGED <<exit_msg, locations, configureFrame>>

\* any other menu choice, "r" with an empty list included
ManageLocationsInvalid ==
    /\ cmd = "configure" /\ pc = "manage_locations"
    /\ output' = <<Line("Invalid choice.", 0, 0)>>
    /\ UNCHANGED <<file, pc, config, exit_msg, locations, saved, configureFrame>>

\* manage_emails adding the entered addresses to the recipients it had
ManageEmails_merging ==
    /\ cmd = "configure" /\ pc = "manage_emails"
    /\ \E email_input \in EmailInputs :
         LET r == manage_emails(config, email_input)
             merged == DictSet(config, "emails",
                               List(check_emails(config) \o r.config["emails"].items))
         IN /\ config' = IF r.save THEN merged ELSE config
            /\ output' = r.printed
            /\ IF r.save
               THEN file' = save_config(merged) /\ saved' = <<merged>>
               ELSE UNCHANGED <<file, saved>>
    /\ pc' = "done"
    /\ UNCHANGED <<exit_msg, locations, configureFrame>>

ManageEmails ==
    /\ cmd = "configure" /\ pc = "manage_emails"
    /\ \E email_input \in EmailInputs :
         LET r == manage_emails(config, email_input)
         IN /\ config' = r.config
            /\ output' = r.printed
            /\ IF r.save
               THEN file' = save_config(r.config) /\ saved' = <<r.config>>
               ELSE UNCHANGED <<file, saved>>
    /\ pc' = "done"
    /\ UNCHANGED <<exit_msg, locations, configureFrame>>

ManageThreshold ==
    /\ cmd = "configure" /\ pc = "manage_notification_threshold"
    /\ \E choice \in ThresholdChoices :
         LET r == manage_notification_threshold(config, choice)
         IN /\ config' = r.config
            /\ output' = r.printed
            /\ IF r.save
               THEN file' = save_config(r.config) /\ saved' = <<r.config>>
               ELSE UNCHANGED <<file, saved>>
    /\ pc' = "done"
    /\ UNCHANGED <<exit_msg, locations, configureFrame>>

\* setup_complete_config: one location entered and geocoded, then Y or N
SetupLocation ==
    /\ cmd = "configure" /\ pc = "setup_locations"
    /\ Len(locations) < MaxLocations
    /\ \E x \in 1..MaxLocations, another \in {"y", "n"} :
         /\ another = "y" => Len(locations) + 1 < MaxLocations
         /\ locations' = Append(locations, Place(x))
         /\ config' = DictSet(config, "locations", List(Append(locations, Place(x))))
         /\ output' = <<Line("Added", Len(locations) + 1, 0)>>
         /\ pc' = IF another = "y" THEN "setup_locations" ELSE "setup_emails"
    /\ UNCHANGED <<file, exit_msg, saved, configureFrame>>

SetupLocationFails ==
    /\ cmd = "configure" /\ pc = "setup_locations"
    /\ \E e \in GeocodingErrors : exit_msg' = geocoding_error_msg(e)
    /\ pc' = "exit"
    /\ UNCHANGED <<file, config, locations, output, saved, configureFrame>>

\* setup_complete_config: the email prompt, asked again after a bad answer,
\* then the threshold prompt and save_config
SetupEmailsAndThreshold ==
    /\ cmd = "configure" /\ pc = "setup_emails"
    /\ \E email_input \in EmailInputs, choice \in ThresholdChoices :
         LET pieces == split(email_input, ",")
             entered == [x \in DOMAIN pieces |-> strip(pieces[x])]
             invalid_emails == SelectSeq(entered, LAMBDA e : ~validate_email(e))
         IN IF invalid_emails # <<>>
            THEN /\ output' = <<Line("Error: Invalid email address(es)", 0, 0)>>
                 /\ UNCHANGED <<config, file, saved, pc>>
            ELSE /\ config' = DictSet(DictSet(config, "emails", List(entered)),
                                      "notification_threshold", setup_threshold(choice))
                 /\ file' = save_config(config')
                 /\ saved' = <<config'>>
                 /\ output' = <<Line("Configuration saved successfully!", 0, 0)>>
                 /\ pc' = "done"
    /\ UNCHANGED <<exit_msg, locations, configureFrame>>

\* the next configure command, run on the file the last one left
NextCommand ==
    /\ cmd = "configure" /\ pc \in {"done", "exit"}
    /\ pc' = "start"
    /\ config' = EmptyDict
    /\ exit_msg' = ""
    /\ locations' = <<>>
    /\ output' = <<>>
    /\ UNCHANGED <<file, cmd, saved, emails, threshold, kp_threshold, n,
                   notification_locations, fetched, composed, sent>>

----------------------------------------------------------------------------
(* The configure command *)

ConfigureFiles ==
    {NoFile, JsonFile([email |-> Address(1)])}
        \cup {JsonFile(l @@ e @@ t) : l \in CheckLocationParts,
                                      e \in CheckEmailParts,
                                      t \in CheckThresholdParts}

InitConfigure ==
    /\ file \in ConfigureFiles
    /\ cmd = "configure"
    /\ InitLocals

NextConfigure ==
    \/ ConfigureLoadExits
    \/ ConfigureMenu
    \/ ManageLocationsAdd
    \/ ManageLocationsAddFails
    \/ ManageLocationsRemove
    \/ ManageLocationsDone
    \/ ManageLocationsInvalid
    \/ ManageEmails
    \/ ManageThreshold
    \/ SetupLocation
    \/ SetupLocationFails
    \/ SetupEmailsAndThreshold
    \/ NextCommand

SpecConfigure == InitConfigure /\ [][NextConfigure]_vars

----------------------------------------------------------------------------
(* Properties of check *)

\* C1: a location whose KP value was extracted is in the notification list
\* exactly when KP >= 5 under HIGH, KP >= 3 under MODERATE, KP > 0 under ALL;
\* KP exactly 0 under ALL is not in the list.
C1_CutoffTable ==
    cmd = "check" =>
        \A x \in DOMAIN fetched :
            (fetched[x].outcome = "ok" /\ fetched[x].kp_index # NoneValue) =>
                LET kp == fetched[x].kp_index.v
                    member == \E y \in DOMAIN notification_locations :
                                  notification_locations[y] = <<locations[x], kp>>
                IN member <=> CASE threshold = "HIGH" -> kp >= 5
                                [] threshold = "MODERATE" -> kp >= 3
                                [] threshold = "ALL" -> kp > 0

\* a run under ALL that saw KP 0 (left out) and the smallest positive KP (taken)
C1_Witness ==
    /\ cmd = "check" /\ pc = "done" /\ threshold = "ALL"
    /\ Len(notification_locations) = 1
    /\ \E x, y \in DOMAIN fetched :
           /\ fetched[x].kp_index = Float(0)
           /\ fetched[y].kp_index = Float(1)

\* C2: when at least one location qualifies the alert is composed exactly
\* once, covering all qualifying locations, and exactly one send is attempted
\* for every configured recipient; when none qualifies nothing is composed
\* and nothing is sent.
C2_OneAlertOneSendEach ==
    cmd = "check" =>
        /\ Len(composed) <= 1
        /\ Len(sent) <= Len(emails)
        /\ notification_locations = <<>> => composed = <<>> /\ sent = <<>>
        /\ (pc = "done" /\ notification_locations # <<>>) =>
              /\ Len(composed) = 1
              /\ Len(composed[1].body) = Len(notification_locations)
              /\ \A y \in DOMAIN notification_locations :
                    /\ composed[1].body[y].city = notification_locations[y][1].d["city"]
                    /\ composed[1].body[y].kp = notification_locations[y][2]
              /\ Len(sent) = Len(emails)
              /\ \A x \in DOMAIN emails :
                    sent[x].to = emails[x] /\ sent[x].message = composed[1]

C2_Witness ==
    /\ cmd = "check" /\ pc = "done"
    /\ Len(notification_locations) = 2
    /\ Len(composed) = 1
    /\ Len(sent) = 2 /\ Len(emails) = 2

\* C3: a failed API request ends the process at that point: the failed
\* request is the last one made (no retry, no later location fetched),
\* nothing is composed or sent, and nothing happens afterwards.
C3_FetchFailureIsFatal ==
    /\ [](cmd = "check" =>
            \A x \in DOMAIN fetched :
                fetched[x].outcome # "ok" =>
                    /\ pc = "exit" /\ exit_msg # ""
                    /\ x = Len(fetched) /\ x = n
                    /\ composed = <<>> /\ sent = <<>>)
    /\ [][pc # "exit"]_vars

\* the second request failed after the first location had qualified
C3_Witness ==
    /\ cmd = "check" /\ pc = "exit"
    /\ Len(fetched) = 2 /\ fetched[2].outcome = "Timeout"
    /\ notification_locations # <<>>
    /\ sent = <<>>

\* C4: a failed send never ends the process and never prevents the attempts
\* that follow: every recipient gets its attempt and check returns normally.
C4_SendFailureNotFatal ==
    cmd = "check" =>
        /\ sent # <<>> => pc # "exit"
        /\ pc = "send" => n = Len(sent) + 1
        /\ (pc = "done" /\ sent # <<>>) =>
              /\ Len(sent) = Len(emails)
              /\ \A x \in DOMAIN emails : sent[x].to = emails[x]

\* the first send failed on authentication, the second was still attempted
C4_Witness ==
    /\ cmd = "check" /\ pc = "done"
    /\ Len(sent) = 2
    /\ sent[1].outcome = "SMTPAuthenticationError"
    /\ sent[2].outcome = "Exception"

\* C5: a location whose response yields no KP value gets a warning line, is
\* never in the notification list, and does not stop the run: the locations
\* after it are still fetched and evaluated.
C5_MissingKpSkipped ==
    cmd = "check" =>
        \A x \in DOMAIN fetched :
            (fetched[x].outcome = "ok" /\ fetched[x].kp_index = NoneValue) =>
                /\ \E k \in DOMAIN output :
                       output[k] = Line("Unable to determine KP index", x, 0)
                /\ \A y \in DOMAIN notification_locations :
                       notification_locations[y][1] # locations[x]
                /\ pc = "fetch" => n = Len(fetched) + 1
                /\ pc = "exit" => fetched[Len(fetched)].outcome # "ok"
                /\ pc \in {"send", "done"} =>
                       /\ Len(fetched) = Len(locations)
                       /\ \A y \in DOMAIN locations :
                              \E k \in DOMAIN output :
                                  /\ output[k].loc = y
                                  /\ output[k].text \in
                                        {"Unable to determine KP index",
                                         "HIGH visibility!",
                                         "MODERATE visibility",
                                         "LOW visibility"}

\* the first location had no KP value, the second was evaluated and notified
C5_Witness ==
    /\ cmd = "check" /\ pc = "done"
    /\ Len(fetched) = 2
    /\ fetched[1].outcome = "ok" /\ fetched[1].kp_index = NoneValue
    /\ fetched[2].kp_index # NoneValue
    /\ Len(notification_locations) = 1

\* C6: no send is attempted before the fetch and the status line of every
\* configured location are done; locations are fetched one after another in
\* configured order, then recipients are sent to in configured order.
C6_FetchAllThenSend ==
    /\ [](cmd = "check" =>
            /\ \A x \in DOMAIN fetched :
                   /\ x <= Len(locations)
                   /\ fetched[x].lat = locations[x].d["latitude"]
                   /\ fetched[x].long = locations[x].d["longitude"]
            /\ \A x \in DOMAIN sent : x <= Len(emails) /\ sent[x].to = emails[x]
            /\ (sent # <<>> \/ composed # <<>>) =>
                   /\ Len(fetched) = Len(locations)
                   /\ \A y \in DOMAIN locations :
                          \E k \in DOMAIN output :
                              /\ output[k].loc = y
                              /\ output[k].text \in
                                    {"Unable to determine KP index",
                                     "HIGH visibility!",
                                     "MODERATE visibility",
                                     "LOW visibility"})
    /\ [][/\ Len(fetched') <= Len(fetched) + 1
          /\ Len(sent') <= Len(sent) + 1
          /\ sent # <<>> => fetched' = fetched]_vars

C6_Witness ==
    /\ cmd = "check" /\ pc = "done"
    /\ Len(fetched) = 2 /\ Len(locations) = 2
    /\ Len(sent) = 2 /\ Len(emails) = 2
    /\ sent[1].outcome = "sent"

----------------------------------------------------------------------------
(* Properties of the configuration store *)

\* C7 as claimed: every configuration written by the interactive operations
\* has a non-empty emails list whose entries all pass validate_email, a
\* non-empty locations list, and a notification_threshold equal to HIGH,
\* MODERATE or ALL.
C7_WrittenConfigHasListsAndThreshold ==
    cmd = "configure" =>
        \A x \in DOMAIN saved :
            /\ "emails" \in DOMAIN saved[x]
            /\ saved[x]["emails"].kind = "list"
            /\ saved[x]["emails"].items # <<>>
            /\ \A y \in DOMAIN saved[x]["emails"].items :
                   validate_email(saved[x]["emails"].items[y])
            /\ "locations" \in DOMAIN saved[x]
            /\ saved[x]["locations"].kind = "list"
            /\ saved[x]["locations"].items # <<>>
            /\ "notification_threshold" \in DOMAIN saved[x]
            /\ saved[x]["notification_threshold"] \in {"HIGH", "MODERATE", "ALL"}

\* C7 as amended: every configuration written has recipients (the emails
\* list, or the legacy email key when there is no list) that are non-empty
\* and all pass validate_email, locations (the locations list, or the legacy
\* city/country/latitude/longitude fields when there is no list) that are
\* non-empty, and a notification_threshold that, when present, is HIGH,
\* MODERATE or ALL.
C7_WrittenConfigIsComplete ==
    cmd = "configure" =>
        \A x \in DOMAIN saved :
            LET c == saved[x]
                recipients ==
                    IF "emails" \in DOMAIN c
                    THEN IF c["emails"].kind = "list" THEN c["emails"].items ELSE <<>>
                    ELSE IF "email" \in DOMAIN c THEN <<c["email"]>> ELSE <<>>
                places ==
                    IF "locations" \in DOMAIN c
                    THEN IF c["locations"].kind = "list" THEN Len(c["locations"].items) ELSE 0
                    ELSE IF {"city", "country", "latitude", "longitude"} \subseteq DOMAIN c
                         THEN 1 ELSE 0
            IN /\ recipients # <<>>
               /\ \A y \in DOMAIN recipients : validate_email(recipients[y])
               /\ places > 0
               /\ "notification_threshold" \in DOMAIN c =>
                      c["notification_threshold"] \in {"HIGH", "MODERATE", "ALL"}

\* a legacy file whose location was converted to a list and whose threshold
\* was then set, its legacy email key still in place
C7_Witness ==
    /\ cmd = "configure" /\ saved # <<>>
    /\ "email" \in DOMAIN saved[1]
    /\ "locations" \in DOMAIN saved[1]
    /\ "notification_threshold" \in DOMAIN saved[1]

C9_LoadReturnsOnlyValid ==
    cmd = "load_config" =>
        /\ pc = "exit" => exit_msg # "" /\ config = EmptyDict
        /\ pc = "done" =>
              /\ file.state = "json"
              /\ config = json_load(file.members)
              /\ validate_config(config) = <<>>
              /\ LET places == check_locations(config)
                     recipients == check_emails(config)
                 IN /\ places # <<>>
                    /\ \A x \in DOMAIN places :
                          /\ places[x].kind = "dict"
                          /\ {"city", "country", "latitude", "longitude"}
                                \subseteq DOMAIN places[x].d
                          /\ places[x].d["latitude"].kind = "float" =>
                                /\ places[x].d["latitude"].v >= -90
                                /\ places[x].d["latitude"].v <= 90
                          /\ places[x].d["longitude"].kind = "float" =>
                                /\ places[x].d["longitude"].v >= -180
                                /\ places[x].d["longitude"].v <= 180
                    /\ recipients # <<>>
                    /\ \A x \in DOMAIN recipients : validate_email(recipients[x])
                    /\ "notification_threshold" \in DOMAIN config =>
                          config["notification_threshold"] \in {"HIGH", "MODERATE", "ALL"}

\* C10: a configuration with a location whose latitude is outside [-90, 90]
\* or whose longitude is outside [-180, 180] fails validation, whether the
\* location is an entry of the locations list or the legacy top-level fields.
C10_OutOfRangeFailsValidation ==
    (cmd = "load_config" /\ pc # "start" /\ file.state = "json") =>
        LET cfg == json_load(file.members)
            outside(c, limit) == c.kind = "float" /\ (c.v < -limit \/ c.v > limit)
            listed ==
                /\ "locations" \in DOMAIN cfg
                /\ cfg["locations"].kind = "list"
                /\ \E x \in DOMAIN cfg["locations"].items :
                       LET loc == cfg["locations"].items[x]
                       IN /\ loc.kind = "dict"
                          /\ \/ /\ "latitude" \in DOMAIN loc.d
                                /\ outside(loc.d["latitude"], 90)
                             \/ /\ "longitude" \in DOMAIN loc.d
                                /\ outside(loc.d["longitude"], 180)
            legacy ==
                /\ "locations" \notin DOMAIN cfg
                /\ {"city", "country", "latitude", "longitude"} \subseteq DOMAIN cfg
                /\ \/ outside(cfg["latitude"], 90)
                   \/ outside(cfg["longitude"], 180)
        IN (listed \/ legacy) => validate_config(cfg) # <<>>

----------------------------------------------------------------------------
(* Properties of the legacy format and of test_email *)

\* C11: check and test_email run on a legacy configuration (top-level
\* city/country/latitude/longitude and a single email key) do what they do on
\* the configuration with a one-element locations list and a one-element
\* emails list holding the same values: the run gets past load_config exactly
\* when the run on the list form does, the same location is fetched, the same
\* notification list results from the same answers, and the same recipient
\* is sent to.
C11_LegacyAsOneElementLists ==
    (/\ cmd \in {"check", "test_email"} /\ pc # "start" /\ file.state = "json"
     /\ {"city", "country", "latitude", "longitude", "email"}
            \subseteq DOMAIN json_load(file.members)
     /\ {"locations", "emails"} \cap DOMAIN json_load(file.members) = {}) =>
        LET cfg == json_load(file.members)
            lists == [locations |-> List(<<Location(cfg["city"], cfg["country"],
                                                    cfg["latitude"], cfg["longitude"])>>),
                      emails |-> List(<<cfg["email"]>>)]
                     @@ Restrict(cfg, DOMAIN cfg \cap {"notification_threshold"})
            other == load_config(JsonFile(lists))
        IN /\ ~other.ok => pc = "exit" /\ fetched = <<>> /\ sent = <<>>
           /\ other.ok =>
                /\ pc # "exit" \/ fetched # <<>>
                /\ locations = lists["locations"].items
                /\ emails = lists["emails"].items
                /\ \A x \in DOMAIN fetched :
                       /\ x = 1
                       /\ fetched[x].lat = lists["locations"].items[x].d["latitude"]
                       /\ fetched[x].long = lists["locations"].items[x].d["longitude"]
                /\ cmd = "check" =>
                       notification_locations =
                           notification_list(check_locations(other.config),
                               threshold_setting(check_threshold(other.config)).kp_threshold,
                               fetched)
                /\ \A x \in DOMAIN sent :
                       x = 1 /\ sent[x].to = lists["emails"].items[x]
                /\ pc = "done" =>
                       Len(sent) = IF cmd = "check" /\ notification_locations = <<>>
                                   THEN 0 ELSE 1

\* C12: the visibility tier printed for a location is HIGH for KP >= 5,
\* MODERATE for 3 <= KP < 5 and LOW for KP < 3 whatever the configured
\* threshold is, and exactly one tier line is printed for each location whose
\* KP was extracted (none for a location whose KP is missing).
C12_TierDependsOnKpOnly ==
    cmd = "check" =>
        \A x \in DOMAIN fetched :
            fetched[x].outcome = "ok" =>
                LET tier_lines ==
                        {k \in DOMAIN output :
                            /\ output[k].loc = x
                            /\ output[k].text \in {"HIGH visibility!",
                                                   "MODERATE visibility",
                                                   "LOW visibility"}}
                IN IF fetched[x].kp_index = NoneValue
                   THEN tier_lines = {}
                   ELSE LET kp == fetched[x].kp_index.v
                        IN /\ Cardinality(tier_lines) = 1
                           /\ \A k \in tier_lines :
                                  /\ output[k].kp = kp
                                  /\ output[k].text =
                                        CASE kp >= 5 -> "HIGH visibility!"
                                          [] kp >= 3 /\ kp < 5 -> "MODERATE visibility"
                                          [] kp < 3 -> "LOW visibility"

\* under threshold HIGH a MODERATE and a LOW line were printed for two
\* locations, neither of which is notified
C12_Witness ==
    /\ cmd = "check" /\ pc = "done" /\ threshold = "HIGH"
    /\ Len(fetched) = 2
    /\ fetched[1].kp_index = Float(4) /\ fetched[2].kp_index = Float(2)
    /\ \E k \in DOMAIN output : output[k] = Line("MODERATE visibility", 1, 4)
    /\ \E k \in DOMAIN output : output[k] = Line("LOW visibility", 2, 2)
    /\ notification_locations = <<>>

\* C13 as claimed: validate_email returns false for every string that
\* contains no "@" and for every string whose part after the "@" does not end
\* in a "." followed by at least two letters.
C13_RejectsMalformed ==
    (cmd = "validate_email" /\ pc = "done") =>
        LET s == emails[1]
            dotted(t) == \E d \in DOMAIN t :
                             /\ t[d] = "."
                             /\ Len(t) - d >= 2
                             /\ \A x \in (d + 1)..Len(t) : t[x] \in Letters
        IN (\/ \A x \in DOMAIN s : s[x] # "@"
            \/ \E at \in DOMAIN s :
                   s[at] = "@" /\ ~dotted(SubSeq(s, at + 1, Len(s))))
           => output[1].text = "False"

\* C13 as amended: validate_email returns false for every string that, once
\* its leading and trailing whitespace is removed, contains no "@" or has a
\* part after the "@" that does not end in a "." followed by at least two
\* letters.
C13_RejectsMalformedAfterStrip ==
    (cmd = "validate_email" /\ pc = "done") =>
        LET s == strip(emails[1])
            dotted(t) == \E d \in DOMAIN t :
                             /\ t[d] = "."
                             /\ Len(t) - d >= 2
                             /\ \A x \in (d + 1)..Len(t) : t[x] \in Letters
        IN (\/ \A x \in DOMAIN s : s[x] # "@"
            \/ \E at \in DOMAIN s :
                   s[at] = "@" /\ ~dotted(SubSeq(s, at + 1, Len(s))))
           => output[1].text = "False"

\* "a@a.a", whose top-level domain has one letter, was rejected
C13_Witness ==
    /\ cmd = "validate_email" /\ pc = "done"
    /\ emails[1] = <<"a", "@", "a", ".", "a">>
    /\ output[1].text = "False"

----------------------------------------------------------------------------
(* Properties of the configure handlers *)

\* C15: a step of manage_locations that stays in the menu or ends the
\* process leaves the config file alone; the only step that writes is Done
\* with a non-empty list, which writes that list and leaves the menu; Done
\* with an empty list prints the warning, writes nothing and stays in the
\* menu, so no session ends through Done with an empty list in the file.
C15_WritesOnlyOnDoneNonEmpty ==
    [][(cmd = "configure" /\ pc = "manage_locations") =>
          /\ pc' \in {"manage_locations", "exit"} =>
                 file' = file /\ saved' = saved
          /\ pc' = "done" =>
                 /\ locations # <<>>
                 /\ locations' = locations
                 /\ config'["locations"] = List(locations)
                 /\ saved' = <<config'>>
                 /\ file' = save_config(config')
                 /\ json_load(file'.members)["locations"].items = locations
                 /\ output' = <<Line("Locations saved", 0, Len(locations))>>
          /\ (/\ output' = <<Line("Warning: No locations configured.", 0, 0)>>
              /\ pc' # "exit") =>
                 /\ locations = <<>>
                 /\ pc' = "manage_locations"
                 /\ file' = file /\ config' = config
          /\ pc' \in {"manage_locations", "done", "exit"}]_vars

\* Done was chosen after the last location had been removed: the warning is
\* on the screen, the menu is still open and the file still has its location
C15_Witness ==
    /\ cmd = "configure" /\ pc = "manage_locations"
    /\ locations = <<>>
    /\ output = <<Line("Warning: No locations configured.", 0, 0)>>
    /\ file.state = "json"
    /\ load_config(file).ok
    /\ check_locations(load_config(file).config) # <<>>

C17_GeocodingFailureWritesNothing ==
    [][cmd = "configure" =>
          /\ (/\ exit_msg' # exit_msg
              /\ \E e \in GeocodingErrors : exit_msg' = geocoding_error_msg(e)) =>
                 /\ pc \in {"manage_locations", "setup_locations"}
                 /\ pc' = "exit"
                 /\ file' = file /\ saved' = saved
          /\ pc' \in {"manage_locations", "setup_locations"} =>
                 /\ pc \in {"start", pc'}
                 /\ file' = file /\ saved' = saved
          /\ (pc \in {"start", "manage_locations", "setup_locations"}
                 /\ pc' = "exit") =>
                 file' = file /\ saved' = saved
          /\ pc = "exit" => pc' = "start" /\ file' = file]_vars

\* geocoding failed in manage_locations after a location had been added:
\* the list in memory is longer than the one the file still holds
C17_Witness ==
    /\ cmd = "configure" /\ pc = "exit"
    /\ \E e \in GeocodingErrors : exit_msg = geocoding_error_msg(e)
    /\ load_config(file).ok
    /\ "locations" \in DOMAIN config
    /\ Len(locations) = 2
    /\ Len(check_locations(load_config(file).config)) = 1
    /\ saved = <<>>

\* C18: manage_emails either rejects its input, when some entry of the
\* comma-separated answer fails validate_email, and then leaves the dict and
\* the file as they were; or it replaces the emails list by the entered
\* addresses, all of them valid, removes the legacy email key, keeps every
\* other key and saves the dict.
C18_EmailsAllOrNothing ==
    [][(cmd = "configure" /\ pc = "manage_emails") =>
          /\ pc' = "done"
          /\ \E email_input \in EmailInputs :
                 LET pieces == split(email_input, ",")
                     entered == [x \in DOMAIN pieces |-> strip(pieces[x])]
                 IN IF \E x \in DOMAIN entered : ~validate_email(entered[x])
                    THEN /\ config' = config
                         /\ file' = file /\ saved' = saved
                         /\ output' = <<Line("Error: Invalid email address(es)", 0, 0)>>
                    ELSE /\ DOMAIN config' = (DOMAIN config \ {"email"}) \cup {"emails"}
                         /\ config'["emails"] = List(entered)
                         /\ \A k \in DOMAIN config' \ {"emails"} : config'[k] = config[k]
                         /\ saved' = <<config'>>
                         /\ file' = save_config(config')
                         /\ load_config(file').ok
                         /\ load_config(file').config = config'
                         /\ output' = <<Line("Email recipients updated", 0, 0)>>
          /\ output' = <<Line("Error: Invalid email address(es)", 0, 0)>> =>
                 config' = config /\ file' = file
          /\ file' # file =>
                 /\ "email" \notin DOMAIN config'
                 /\ \A x \in DOMAIN config'["emails"].items :
                        validate_email(config'["emails"].items[x])]_vars

\* a legacy file whose single recipient was replaced by two entered ones
C18_Witness ==
    /\ cmd = "configure" /\ pc = "done"
    /\ output = <<Line("Email recipients updated", 0, 0)>>
    /\ "city" \in DOMAIN config /\ "email" \notin DOMAIN config
    /\ config["emails"] = List(<<Address(1), Address(2)>>)
    /\ saved = <<config>>
    /\ load_config(file).config = config

----------------------------------------------------------------------------
(* Properties of the KP extraction and of the derived lists *)

\* C19: the KP value of a response is ace.kp when that is present and not
\* null (0 included); it is ace.current.kp only when ace.kp is absent or
\* null; it is missing when the response has no ace key or neither path holds
\* a value.
C19_KpFromAceThenCurrent ==
    (cmd = "extract_kp" /\ pc = "done") =>
        LET data == fetched[1]
            holds(d, k) == k \in DOMAIN d /\ d[k] # NoneValue
            missing == <<Line("Unable to determine KP index", 1, 0)>>
        IN IF "ace" \notin DOMAIN data THEN output = missing
           ELSE IF holds(data["ace"], "kp")
                THEN output = <<Line("KP", 1, data["ace"]["kp"].v)>>
                ELSE IF /\ "current" \in DOMAIN data["ace"]
                        /\ holds(data["ace"]["current"], "kp")
                     THEN output = <<Line("KP", 1, data["ace"]["current"]["kp"].v)>>
                     ELSE output = missing

\* ace.kp is 0 and ace.current.kp is 5: the KP taken is 0
C19_Witness ==
    /\ cmd = "extract_kp" /\ pc = "done"
    /\ fetched[1] = [ace |-> [kp |-> Float(0), current |-> [kp |-> Float(5)]]]
    /\ output = <<Line("KP", 1, 0)>>

\* C20: in check and in test_email, once load_config has returned, the
\* derived locations list and the derived recipients list are non-empty, and
\* neither the "No locations configured" nor the "No email addresses
\* configured" return is taken.
C20_DerivedListsNonEmpty ==
    (cmd \in {"check", "test_email"} /\ pc # "start") =>
        /\ \A k \in DOMAIN output :
               output[k].text \notin {"No locations configured",
                                      "Warning: No email addresses configured",
                                      "Error: No email addresses configured."}
        /\ IF load_config(file).ok
           THEN /\ check_locations(config) # <<>>
                /\ check_emails(config) # <<>>
                /\ test_email_locations(config) # <<>>
                /\ test_email_emails(config) # <<>>
                /\ locations # <<>> /\ emails # <<>>
                /\ pc = "done" =>
                       /\ cmd = "check" => Len(fetched) = Len(locations)
                       /\ cmd = "test_email" => Len(sent) = Len(emails)
           ELSE pc = "exit"

\* a check run on a legacy configuration went through its one location
C20_Witness ==
    /\ cmd = "check" /\ pc = "done"
    /\ "city" \in DOMAIN config /\ "email" \in DOMAIN config
    /\ Len(locations) = 1 /\ Len(emails) = 1
    /\ Len(fetched) = 1

----------------------------------------------------------------------------
(* Properties of the notification stage of check *)

\* C21: once the loop over locations has ended with a non-empty notification
\* list, check goes through the send loop and then prints "Notification sent
\* for N location(s)!", N the length of the list, whatever the sends did:
\* the line is the last one printed, it follows one line per recipient, and
\* it is printed also when no send went through.
C21_NotificationLineAlwaysPrinted ==
    /\ [](cmd = "check" =>
            /\ (pc = "done" /\ notification_locations # <<>>) =>
                   /\ output[Len(output)] =
                          Line("Notification sent for location(s)!", 0,
                               Len(notification_locations))
                   /\ Len(sent) = Len(emails)
                   /\ \A x \in DOMAIN sent :
                          output[Len(output) - Len(sent) - 1 + x].text =
                              send_email(sent[x].to, sent[x].outcome).text
            /\ (pc # "done" \/ notification_locations = <<>>) =>
                   \A k \in DOMAIN output :
                       output[k].text # "Notification sent for location(s)!")
    /\ (cmd = "check" /\ pc = "send") ~>
           (/\ pc = "done"
            /\ output[Len(output)] =
                   Line("Notification sent for location(s)!", 0,
                        Len(notification_locations)))

\* the credentials were missing for the first recipient and the login failed
\* for the second: the line was printed all the same
C21_Witness ==
    /\ cmd = "check" /\ pc = "done"
    /\ Len(notification_locations) = 2
    /\ Len(sent) = 2
    /\ sent[1].outcome = "not configured"
    /\ sent[2].outcome = "SMTPAuthenticationError"
    /\ output[Len(output)] = Line("Notification sent for location(s)!", 0, 2)

\* C22: for every KP value, a location that qualifies under HIGH qualifies
\* under MODERATE, and one that qualifies under MODERATE qualifies under ALL;
\* under any one threshold, when a KP value qualifies every greater KP value
\* qualifies; a configuration without notification_threshold decides as one
\* with HIGH.
C22_MembershipMonotone ==
    (cmd = "location_status" /\ pc = "done") =>
        LET q(name, x) ==
                \E i \in DOMAIN notification_locations :
                    /\ notification_locations[i][2] = fetched[x].v
                    /\ DOMAIN notification_locations[i][1] =
                           IF name = "" THEN {} ELSE {"notification_threshold"}
                    /\ name # "" =>
                           notification_locations[i][1]["notification_threshold"] = name
        IN /\ \A x \in DOMAIN fetched :
                  /\ q("HIGH", x) => q("MODERATE", x)
                  /\ q("MODERATE", x) => q("ALL", x)
                  /\ q("", x) <=> q("HIGH", x)
           /\ \A x, y \in DOMAIN fetched :
                  fetched[x].v < fetched[y].v =>
                      \A name \in {"", "HIGH", "MODERATE", "ALL"} :
                          q(name, x) => q(name, y)

\* KP 0 qualifies under no threshold, KP 3 under MODERATE and ALL but not
\* under HIGH nor without a threshold key
C22_Witness ==
    /\ cmd = "location_status" /\ pc = "done"
    /\ fetched = <<Float(0), Float(3)>>
    /\ notification_locations =
           <<<<[notification_threshold |-> "MODERATE"], 3>>,
             <<[notification_threshold |-> "ALL"], 3>>>>

\* C23: the notification list of check is the configured locations list with
\* some positions left out: at most one entry per position, in the order of
\* the configured list, each entry pairing the location of its position with
\* the KP value extracted from the answer to that location's request.
C23_NotificationListFollowsLocations ==
    cmd = "check" =>
        LET configured == check_locations(config)
        IN \E kept \in SUBSET (DOMAIN fetched \cap DOMAIN configured) :
               /\ \A x \in kept :
                      /\ fetched[x].outcome = "ok"
                      /\ fetched[x].kp_index # NoneValue
                      /\ fetched[x].lat = configured[x].d["latitude"]
                      /\ fetched[x].long = configured[x].d["longitude"]
               /\ notification_locations =
                      Flatten([x \in DOMAIN fetched |->
                                  IF x \in kept
                                  THEN <<<<configured[x], fetched[x].kp_index.v>>>>
                                  ELSE <<>>])

\* two configured locations under MODERATE, both in the list with their own
\* KP values, the first location first
C23_Witness ==
    /\ cmd = "check" /\ pc = "send"
    /\ Len(check_locations(config)) = 2
    /\ Len(fetched) = 2
    /\ fetched[1].kp_index = Float(3) /\ fetched[2].kp_index = Float(5)
    /\ notification_locations = <<<<check_locations(config)[1], 3>>,
                                  <<check_locations(config)[2], 5>>>>
    /\ notification_locations = notification_list(locations, kp_threshold, fetched)

====
